---- MODULE Spec2Model ----
(***************************************************************************)
(* A model of burpsluice.py: the BurpParser aggregator, its header, query, *)
(* form and JSON extractors, the exchange walker parse_burp_xml and the    *)
(* command line driver main.                                               *)
(*                                                                         *)
(* Text is modelled character by character: a Python str is a sequence of  *)
(* one-character strings, so that split, strip, lower, startswith and      *)
(* slicing are computed the way Python computes them.                      *)
(***************************************************************************)
EXTENDS Integers, Sequences, FiniteSets, TLC

VARIABLES
    pc,            \* position of the run: which step comes next
    args,          \* argparse namespace: xml_file, output, key
    disk,          \* the file system the run sees: the input file and the two outputs
    doc,           \* root.findall('.//item') once the document is loaded
    idx,           \* index of the next item of the walk
    burp_parser,   \* the BurpParser instance (cookies, params, cookie_values, param_values)
    values,        \* the list search_key returned
    stdout,        \* lines printed on standard output
    stderr,        \* lines printed on standard error
    exit_status,   \* the process exit status, -1 while running
    error,         \* the exception on its way to the except clause of main
    arg            \* the argument of the method under test in the unit specifications

vars ==
    <<pc, args, disk, doc, idx, burp_parser, values, stdout, stderr, exit_status, error, arg>>

(***************************************************************************)
(* Bounds of the model.                                                    *)
(***************************************************************************)
MaxLen == 4
MaxItems == 2
MaxNodes == 4

(***************************************************************************)
(* Python str primitives on sequences of characters.                       *)
(***************************************************************************)
Printable ==
  <<
    " ", "!", "\"", "#", "$", "%", "&", "'", "(",
    ")", "*", "+", ",", "-", ".", "/", "0", "1", "2", "3", "4",
    "5", "6", "7", "8", "9", ":", ";", "<", "=", ">", "?", "@",
    "A", "B", "C", "D", "E", "F", "G", "H", "I", "J", "K", "L",
    "M", "N", "O", "P", "Q", "R", "S", "T", "U", "V", "W", "X",
    "Y", "Z", "[", "\\", "]", "^", "_", "a", "b", "c", "d",
    "e", "f", "g", "h", "i", "j", "k", "l", "m", "n", "o", "p",
    "q", "r", "s", "t", "u", "v", "w", "x", "y", "z", "{", "|",
    "}", "~"
  >>

Chars == {Printable[i] : i \in 1..Len(Printable)} \cup {"\t", "\n", "\r"}

\* ord(c): the code point of a character
Ord ==
    [c \in Chars |->
        CASE c = "\t" -> 9
          [] c = "\n" -> 10
          [] c = "\r" -> 13
          [] OTHER -> LET i == CHOOSE j \in 1..Len(Printable) : Printable[j] = c
                      IN  IF i <= 64 THEN 31 + i ELSE 32 + i]

\* chr(n) for the characters of the model (the backquote, 96, is left out)
Chr(n) ==
    CASE n = 9 -> "\t"
      [] n = 10 -> "\n"
      [] n = 13 -> "\r"
      [] n >= 32 /\ n <= 95 -> Printable[n - 31]
      [] n >= 97 /\ n <= 126 -> Printable[n - 32]

\* str.isspace for the characters of the model
Whitespace == {" ", "\t", "\n", "\r"}

Min(S) == CHOOSE x \in S : \A y \in S : x <= y
Max(S) == CHOOSE x \in S : \A y \in S : x >= y

\* s[n:]
SliceFrom(s, n) == SubSeq(s, n + 1, Len(s))

\* s.startswith(p)
StartsWith(s, p) == Len(p) <= Len(s) /\ SubSeq(s, 1, Len(p)) = p

\* the 1-based index of the first occurrence of pat in s, 0 when there is none
Find(s, pat) ==
    LET hits == {i \in 1..(Len(s) - Len(pat) + 1) : SubSeq(s, i, i + Len(pat) - 1) = pat}
    IN  IF hits = {} THEN 0 ELSE Min(hits)

\* pat in s
Contains(s, pat) == Find(s, pat) # 0

\* s.lower()
LowerChar(c) == IF Ord[c] >= 65 /\ Ord[c] <= 90 THEN Chr(Ord[c] + 32) ELSE c
Lower(s) == [i \in 1..Len(s) |-> LowerChar(s[i])]

\* s.upper()
UpperChar(c) == IF Ord[c] >= 97 /\ Ord[c] <= 122 THEN Chr(Ord[c] - 32) ELSE c
Upper(s) == [i \in 1..Len(s) |-> UpperChar(s[i])]

\* s.strip()
Strip(s) ==
    LET keep == {i \in 1..Len(s) : s[i] \notin Whitespace}
    IN  IF keep = {} THEN <<>> ELSE SubSeq(s, Min(keep), Max(keep))

\* s.split(sep): every occurrence of sep cuts
RECURSIVE Split(_, _)
Split(s, sep) ==
    LET i == Find(s, sep)
    IN  IF i = 0 THEN <<s>>
        ELSE <<SubSeq(s, 1, i - 1)>> \o Split(SubSeq(s, i + Len(sep), Len(s)), sep)

\* s.split(sep, 1): only the first occurrence of sep cuts
Split1(s, sep) ==
    LET i == Find(s, sep)
    IN  IF i = 0 THEN <<s>>
        ELSE <<SubSeq(s, 1, i - 1), SubSeq(s, i + Len(sep), Len(s))>>

\* a < b for Python str: lexicographic on code points
RECURSIVE StrLess(_, _)
StrLess(a, b) ==
    IF b = <<>> THEN FALSE
    ELSE IF a = <<>> THEN TRUE
    ELSE IF a[1] # b[1] THEN Ord[a[1]] < Ord[b[1]]
    ELSE StrLess(Tail(a), Tail(b))

\* sorted(S) for a set of str
RECURSIVE Sorted(_)
Sorted(S) ==
    IF S = {} THEN <<>>
    ELSE LET m == CHOOSE x \in S : \A y \in S \ {x} : StrLess(x, y)
         IN  <<m>> \o Sorted(S \ {m})

Range(seq) == {seq[i] : i \in 1..Len(seq)}

(***************************************************************************)
(* The literals of the source.                                             *)
(***************************************************************************)
EQ == <<"=">>
SEMI == <<";">>
AMP == <<"&">>
LF == <<"\n">>
SP == <<" ">>
CRLFCRLF == <<"\r", "\n", "\r", "\n">>
cookie_prefix == <<"c", "o", "o", "k", "i", "e", ":">>
set_cookie_prefix == <<"s", "e", "t", "-", "c", "o", "o", "k", "i", "e", ":">>
content_type_prefix == <<"c", "o", "n", "t", "e", "n", "t", "-", "t", "y", "p", "e", ":">>
form_word == <<"f", "o", "r", "m">>
json_word == <<"j", "s", "o", "n">>
POST == <<"P", "O", "S", "T">>

(***************************************************************************)
(* BurpParser: the aggregate state.                                        *)
(***************************************************************************)
\* a defaultdict(set) entry assigned instead of added to: d[k] = {v}
DictAssign(d, k, v) == [n \in DOMAIN d \cup {k} |-> IF n = k THEN {v} ELSE d[n]]

\* defaultdict(set)[k].add(v)
DictAdd(d, k, v) ==
    [n \in DOMAIN d \cup {k} |->
        IF n = k THEN (IF k \in DOMAIN d THEN d[k] ELSE {}) \cup {v} ELSE d[n]]

\* the (name, value) pairs a defaultdict(set) holds
Pairs(d) == UNION {{<<n, v>> : v \in d[n]} : n \in DOMAIN d}

\* BurpParser(): two empty sets and two empty defaultdict(set)
BurpParser_init ==
    [cookies |-> {}, params |-> {}, cookie_values |-> <<>>, param_values |-> <<>>]

\* the segment cut at every '=' instead of the first: cookie.split('=')
cookie_segment_every_eq(self, cookie) ==
    IF Contains(cookie, EQ)
    THEN LET kv == Split(cookie, EQ)
             cookie_name == Strip(kv[1])
         IN  [self EXCEPT !.cookies = @ \cup {cookie_name},
                          !.cookie_values = DictAdd(@, cookie_name, Strip(kv[2]))]
    ELSE self

\* the body of the loop over the segments of a cookie: line
cookie_segment(self, cookie) ==
    IF Contains(cookie, EQ)
    THEN LET kv == Split1(cookie, EQ)
             cookie_name == Strip(kv[1])
             cookie_value == kv[2]
         IN  [self EXCEPT !.cookies = @ \cup {cookie_name},
                          !.cookie_values = DictAdd(@, cookie_name, Strip(cookie_value))]
    ELSE self

\* the set-cookie: branch
set_cookie_line(self, line) ==
    LET cookie == Strip(SliceFrom(line, 11))
    IN  IF Contains(cookie, EQ)
        THEN LET kv == Split1(cookie, EQ)
                 cookie_name == Strip(kv[1])
                 cookie_value == kv[2]
                 value == Strip(Split(cookie_value, SEMI)[1])
             IN  [self EXCEPT !.cookies = @ \cup {cookie_name},
                              !.cookie_values = DictAdd(@, cookie_name, value)]
        ELSE self

\* for cookie in cookies
RECURSIVE cookie_loop(_, _)
cookie_loop(self, cookies) ==
    IF cookies = <<>> THEN self
    ELSE cookie_loop(cookie_segment(self, Head(cookies)), Tail(cookies))

\* the body of the loop over the header lines
cookie_line(self, line) ==
    IF StartsWith(Lower(line), cookie_prefix)
    THEN cookie_loop(self, Split(Strip(SliceFrom(line, 7)), SEMI))
    ELSE IF StartsWith(Lower(line), set_cookie_prefix)
    THEN set_cookie_line(self, line)
    ELSE self

\* for line in headers.split('\n')
RECURSIVE header_loop(_, _)
header_loop(self, lines) ==
    IF lines = <<>> THEN self
    ELSE header_loop(cookie_line(self, Head(lines)), Tail(lines))

parse_cookies(self, headers) == header_loop(self, Split(headers, LF))

\* the body of the loop over the '&' segments of a query string or a form body
param_segment(self, param) ==
    IF Contains(param, EQ)
    THEN LET kv == Split1(param, EQ)
             param_name == kv[1]
             param_value == kv[2]
         IN  IF param_name # <<>>
             THEN [self EXCEPT !.params = @ \cup {param_name},
                               !.param_values = DictAdd(@, param_name, param_value)]
             ELSE self
    ELSE self

\* for param in params
RECURSIVE param_loop(_, _)
param_loop(self, params) ==
    IF params = <<>> THEN self
    ELSE param_loop(param_segment(self, Head(params)), Tail(params))

parse_query_params(self, query) ==
    IF query = <<>> THEN self
    ELSE param_loop(self, Split(query, AMP))

(***************************************************************************)
(* json.loads, for the JSON texts of the model: objects, arrays, strings   *)
(* without escapes, integers, true, false and null, with JSON whitespace.  *)
(* A JSON value is [t, v, items]: t its Python type, v the characters of a *)
(* scalar, items the members [k, val] of a dict (k the key) or of a list   *)
(* (k empty).                                                              *)
(***************************************************************************)
Digits == {"0", "1", "2", "3", "4", "5", "6", "7", "8", "9"}
true_word == <<"t", "r", "u", "e">>
false_word == <<"f", "a", "l", "s", "e">>
null_word == <<"n", "u", "l", "l">>

JScalar(t, v) == [t |-> t, v |-> v, items |-> <<>>]
JDict(items) == [t |-> "dict", v |-> <<>>, items |-> items]
JList(items) == [t |-> "list", v |-> <<>>, items |-> items]
JNone == JScalar("NoneType", <<>>)
Member(k, val) == [k |-> k, val |-> val]

JFail == [ok |-> FALSE, val |-> JNone, pos |-> 0]
JOk(val, pos) == [ok |-> TRUE, val |-> val, pos |-> pos]

\* the first index >= i of s that holds no JSON whitespace (Len(s) + 1 at the end)
SkipWs(s, i) ==
    LET rest == {j \in i..Len(s) : s[j] \notin Whitespace}
    IN  IF rest = {} THEN Len(s) + 1 ELSE Min(rest)

\* d[k] = val on a dict kept as the sequence of its members, in insertion order
DictPut(items, k, val) ==
    IF \E j \in 1..Len(items) : items[j].k = k
    THEN [j \in 1..Len(items) |-> IF items[j].k = k THEN Member(k, val) ELSE items[j]]
    ELSE Append(items, Member(k, val))

\* a string literal opening at s[i] = '"': up to the next '"'
JString(s, i) ==
    LET close == {j \in (i + 1)..Len(s) : s[j] = "\""}
    IN  IF close = {} THEN JFail
        ELSE LET j == Min(close)
                 body == SubSeq(s, i + 1, j - 1)
             IN  IF \E n \in 1..Len(body) : body[n] = "\\" \/ Ord[body[n]] < 32
                 THEN JFail
                 ELSE JOk(JScalar("str", body), j + 1)

\* an integer literal at s[i]: -?(0|[1-9][0-9]*)
JNumber(s, i) ==
    LET first == IF s[i] = "-" THEN i + 1 ELSE i
        stop == {j \in first..Len(s) : s[j] \notin Digits}
        end == IF stop = {} THEN Len(s) + 1 ELSE Min(stop)
        last == IF first <= Len(s) /\ s[first] = "0" THEN first + 1 ELSE end
    IN  IF last = first THEN JFail
        ELSE JOk(JScalar("int", SubSeq(s, i, last - 1)), last)

RECURSIVE JValue(_, _), JPair(_, _, _), JElement(_, _, _)

\* the value that starts at s[i]
JValue(s, i) ==
    IF i > Len(s) THEN JFail
    ELSE IF s[i] = "\"" THEN JString(s, i)
    ELSE IF s[i] = "{"
    THEN LET j == SkipWs(s, i + 1)
         IN  IF j <= Len(s) /\ s[j] = "}" THEN JOk(JDict(<<>>), j + 1)
             ELSE JPair(s, j, <<>>)
    ELSE IF s[i] = "["
    THEN LET j == SkipWs(s, i + 1)
         IN  IF j <= Len(s) /\ s[j] = "]" THEN JOk(JList(<<>>), j + 1)
             ELSE JElement(s, j, <<>>)
    ELSE IF StartsWith(SliceFrom(s, i - 1), null_word)
    THEN JOk(JNone, i + 4)
    ELSE IF StartsWith(SliceFrom(s, i - 1), true_word)
    THEN JOk(JScalar("bool", true_word), i + 4)
    ELSE IF StartsWith(SliceFrom(s, i - 1), false_word)
    THEN JOk(JScalar("bool", false_word), i + 5)
    ELSE IF s[i] \in Digits \cup {"-"} THEN JNumber(s, i)
    ELSE JFail

\* the members of an object from the key at s[i] on; items are those read so far
JPair(s, i, items) ==
    IF i > Len(s) \/ s[i] # "\"" THEN JFail
    ELSE LET key == JString(s, i)
         IN  IF ~key.ok THEN JFail
             ELSE LET colon == SkipWs(s, key.pos)
                  IN  IF colon > Len(s) \/ s[colon] # ":" THEN JFail
                      ELSE LET val == JValue(s, SkipWs(s, colon + 1))
                           IN  IF ~val.ok THEN JFail
                               ELSE LET next == SkipWs(s, val.pos)
                                        now == DictPut(items, key.val.v, val.val)
                                    IN  IF next > Len(s) THEN JFail
                                        ELSE IF s[next] = "}" THEN JOk(JDict(now), next + 1)
                                        ELSE IF s[next] = ","
                                        THEN JPair(s, SkipWs(s, next + 1), now)
                                        ELSE JFail

\* the elements of an array from the value at s[i] on
JElement(s, i, items) ==
    LET val == JValue(s, i)
    IN  IF ~val.ok THEN JFail
        ELSE LET next == SkipWs(s, val.pos)
                 now == Append(items, Member(<<>>, val.val))
             IN  IF next > Len(s) THEN JFail
                 ELSE IF s[next] = "]" THEN JOk(JList(now), next + 1)
                 ELSE IF s[next] = "," THEN JElement(s, SkipWs(s, next + 1), now)
                 ELSE JFail

\* json.loads(data): ok is FALSE where it raises json.JSONDecodeError
json_loads(data) ==
    LET r == JValue(data, SkipWs(data, 1))
    IN  IF r.ok /\ SkipWs(data, r.pos) = Len(data) + 1 THEN r ELSE JFail

\* str(value) for the scalars json.loads returns
PyStr(value) ==
    IF value.t = "bool"
    THEN (IF value.v = true_word THEN <<"T", "r", "u", "e">> ELSE <<"F", "a", "l", "s", "e">>)
    ELSE IF value.t = "int" /\ value.v = <<"-", "0">> THEN <<"0">>
    ELSE value.v

RECURSIVE _extract_json_pairs(_, _, _)

\* the member recorded under its dotted path: self.params.add(prefix + key)
json_member_prefixed(self, m, prefix) ==
    LET key == prefix \o m.k
        value == m.val
        named == [self EXCEPT !.params = @ \cup {key}]
    IN  IF value.t \in {"str", "int", "float", "bool"}
        THEN [named EXCEPT !.param_values = DictAdd(@, key, PyStr(value))]
        ELSE IF value.t \in {"dict", "list"}
        THEN _extract_json_pairs(named, value, key \o <<".">>)
        ELSE named

\* the body of the loop over obj.items()
json_member(self, m, prefix) ==
    LET key == m.k
        value == m.val
        named == [self EXCEPT !.params = @ \cup {key}]
    IN  IF value.t \in {"str", "int", "float", "bool"}
        THEN [named EXCEPT !.param_values = DictAdd(@, key, PyStr(value))]
        ELSE IF value.t \in {"dict", "list"}
        THEN _extract_json_pairs(named, value, prefix \o key \o <<".">>)
        ELSE named

\* the body of the loop over the items of a list
json_item(self, m, prefix) ==
    LET item == m.val
    IN  IF item.t \in {"dict", "list"} THEN _extract_json_pairs(self, item, prefix)
        ELSE self

\* for key, value in obj.items()
RECURSIVE member_loop(_, _, _)
member_loop(self, members, prefix) ==
    IF members = <<>> THEN self
    ELSE member_loop(json_member(self, Head(members), prefix), Tail(members), prefix)

\* for item in obj
RECURSIVE item_loop(_, _, _)
item_loop(self, members, prefix) ==
    IF members = <<>> THEN self
    ELSE item_loop(json_item(self, Head(members), prefix), Tail(members), prefix)

_extract_json_pairs(self, obj, prefix) ==
    IF obj.t = "dict" THEN member_loop(self, obj.items, prefix)
    ELSE IF obj.t = "list" THEN item_loop(self, obj.items, prefix)
    ELSE self

\* try: json_data = json.loads(data) ... except json.JSONDecodeError: pass
json_body(self, json_data) ==
    IF json_data.ok THEN _extract_json_pairs(self, json_data.val, <<>>) ELSE self

\* the two extractors run one after the other, the form branch without its return
parse_post_data_both(self, data, content_type) ==
    IF data = <<>> THEN self
    ELSE LET formed == IF Contains(Lower(content_type), form_word)
                       THEN param_loop(self, Split(data, AMP))
                       ELSE self
         IN  IF \/ Contains(Lower(content_type), json_word)
                \/ StartsWith(Strip(data), <<"{">>)
                \/ StartsWith(Strip(data), <<"[">>)
             THEN json_body(formed, json_loads(data))
             ELSE formed

parse_post_data(self, data, content_type) ==
    IF data = <<>> THEN self
    ELSE IF Contains(Lower(content_type), form_word)
    THEN param_loop(self, Split(data, AMP))
    ELSE IF \/ Contains(Lower(content_type), json_word)
            \/ StartsWith(Strip(data), <<"{">>)
            \/ StartsWith(Strip(data), <<"[">>)
    THEN json_body(self, json_loads(data))
    ELSE self

get_content_type(headers) ==
    LET lines == Split(headers, LF)
        hits == {i \in 1..Len(lines) : StartsWith(Lower(lines[i]), content_type_prefix)}
    IN  IF hits = {} THEN <<>> ELSE Strip(SliceFrom(lines[Min(hits)], 13))

(***************************************************************************)
(* base64.b64decode(text).decode('utf-8', errors='replace'), as            *)
(* binascii.a2b_base64 computes it without strict mode: characters outside *)
(* the alphabet are skipped, a pad sequence that completes a quad ends the *)
(* input, and an incomplete quad at the end raises binascii.Error.  Every  *)
(* byte of the model is ASCII, which utf-8 decodes to itself.              *)
(***************************************************************************)
B64Value(c) ==
    LET n == Ord[c]
    IN  IF n >= 65 /\ n <= 90 THEN n - 65
        ELSE IF n >= 97 /\ n <= 122 THEN n - 71
        ELSE IF n >= 48 /\ n <= 57 THEN n + 4
        ELSE IF c = "+" THEN 62
        ELSE IF c = "/" THEN 63
        ELSE 64

\* ok is FALSE where b64decode raises binascii.Error.  seq is the input without
\* the skipped characters; the input ends at the first '=' that completes a quad
\* (the first after three data characters, the second in a row after two); the
\* data characters before it are decoded four to three bytes
b64decode(text) ==
    LET seq == SelectSeq(text, LAMBDA c : c = "=" \/ B64Value(c) < 64)
        quad_pos(i) == Cardinality({j \in 1..(i - 1) : seq[j] # "="}) % 4
        stops == {i \in 1..Len(seq) :
                    /\ seq[i] = "="
                    /\ \/ quad_pos(i) = 3
                       \/ quad_pos(i) = 2 /\ i > 1 /\ seq[i - 1] = "="}
        done == stops # {}
        read == IF done THEN SubSeq(seq, 1, Min(stops) - 1) ELSE seq
        data == SelectSeq(read, LAMBDA c : c # "=")
        n == Len(data)
        nbytes == 3 * (n \div 4) + (IF n % 4 = 0 THEN 0 ELSE (n % 4) - 1)
        byte(k) ==
            LET q == 4 * ((k - 1) \div 3)
                r == (k - 1) % 3
            IN  IF r = 0 THEN B64Value(data[q + 1]) * 4 + B64Value(data[q + 2]) \div 16
                ELSE IF r = 1
                THEN (B64Value(data[q + 2]) % 16) * 16 + B64Value(data[q + 3]) \div 4
                ELSE (B64Value(data[q + 3]) % 4) * 64 + B64Value(data[q + 4])
    IN  IF done \/ n % 4 = 0
        THEN [ok |-> TRUE, text |-> [k \in 1..nbytes |-> Chr(byte(k))]]
        ELSE [ok |-> FALSE, text |-> <<>>]

\* urlparse(url).query: tab, CR and LF are removed, the fragment is cut at the
\* first '#', the query is what follows the first '?'
urlparse_query(url) ==
    LET safe == SelectSeq(url, LAMBDA c : c \notin {"\t", "\r", "\n"})
        nofrag == Split1(safe, <<"#">>)[1]
        cut == Split1(nofrag, <<"?">>)
    IN  IF Len(cut) = 2 THEN cut[2] ELSE <<>>

\* item.find(tag) is not None and its text is not empty
HasText(element) == element.exists /\ element.text # <<>>

\* if method == 'POST' and body
request_body(queried, method, body, content_type) ==
    IF method = POST /\ body # <<>> THEN parse_post_data(queried, body, content_type)
    ELSE queried

\* parts = first_line.split(' '); if len(parts) >= 2
request_parts(scanned, parts, body, content_type) ==
    IF Len(parts) >= 2
    THEN request_body(parse_query_params(scanned, urlparse_query(parts[2])),
                      Upper(parts[1]), body, content_type)
    ELSE scanned

\* first_line = headers.split('\n')[0]; if first_line
request_line(scanned, first_line, body, content_type) ==
    IF first_line # <<>> THEN request_parts(scanned, Split(first_line, SP), body, content_type)
    ELSE scanned

request_message(self, headers, body) ==
    request_line(parse_cookies(self, headers), Split(headers, LF)[1], body,
                 get_content_type(headers))

\* headers, body = request_text.split('\r\n\r\n', 1), or the whole text and ""
request_cut(self, cut) == request_message(self, cut[1], IF Len(cut) = 2 THEN cut[2] ELSE <<>>)

\* the request half of the loop body of parse_burp_xml, from the decoded text on
parse_request(self, request_text) == request_cut(self, Split1(request_text, CRLFCRLF))

\* if 'json' in content_type.lower()
response_body(scanned, body, content_type) ==
    IF Contains(Lower(content_type), json_word) THEN parse_post_data(scanned, body, content_type)
    ELSE scanned

response_message(self, headers, body) ==
    response_body(parse_cookies(self, headers), body, get_content_type(headers))

response_cut(self, cut) == response_message(self, cut[1], cut[2])

\* a response without the separator read as a header block with an empty body
parse_response_headers_only(self, response_text) ==
    IF Contains(response_text, CRLFCRLF)
    THEN response_cut(self, Split1(response_text, CRLFCRLF))
    ELSE response_message(self, response_text, <<>>)

\* the response half of the loop body of parse_burp_xml, from the decoded text on
parse_response(self, response_text) ==
    IF Contains(response_text, CRLFCRLF)
    THEN response_cut(self, Split1(response_text, CRLFCRLF))
    ELSE self

\* how an iteration of the loop of parse_burp_xml ends: raised names the exception
\* that left it ("" when none did), self is the instance as it was left
Walked(self) == [self |-> self, raised |-> ""]
Raised(self, exception) == [self |-> self, raised |-> exception]

\* a decode failure caught per exchange instead of leaving the loop
request_decoded_caught(self, request) ==
    IF request.ok THEN Walked(parse_request(self, request.text)) ELSE Walked(self)

request_decoded(self, request) ==
    IF request.ok THEN Walked(parse_request(self, request.text))
    ELSE Raised(self, "binascii.Error")

walk_request(self, item) ==
    IF HasText(item.request) THEN request_decoded(self, b64decode(item.request.text))
    ELSE Walked(self)

response_decoded(self, response) ==
    IF response.ok THEN Walked(parse_response(self, response.text))
    ELSE Raised(self, "binascii.Error")

walk_response(walked, item) ==
    IF walked.raised # "" THEN walked
    ELSE IF HasText(item.response)
    THEN response_decoded(walked.self, b64decode(item.response.text))
    ELSE walked

\* one iteration of the loop of parse_burp_xml
walk_item(self, item) == walk_response(walk_request(self, item), item)

RECURSIVE parse_items(_, _)

\* the loop goes on with the items left unless an exception left it
parse_rest(walked, items) ==
    IF walked.raised # "" THEN walked ELSE parse_items(walked.self, items)

\* the for loop of parse_burp_xml over the items of the document
parse_items(self, items) ==
    IF items = <<>> THEN Walked(self)
    ELSE parse_rest(walk_item(self, Head(items)), Tail(items))

\* the lookup that forgets the parameter values
search_key_cookies_only(self, key) ==
    Sorted(IF key \in DOMAIN self.cookie_values THEN self.cookie_values[key] ELSE {})

search_key(self, key) ==
    LET from_cookies == IF key \in DOMAIN self.cookie_values THEN self.cookie_values[key]
                        ELSE {}
        from_params == IF key \in DOMAIN self.param_values THEN self.param_values[key]
                       ELSE {}
    IN  Sorted(from_cookies \cup from_params)

\* open(name, 'w') and one write per name: the file is created or truncated
WriteFile(file, lines) == [exists |-> TRUE, lines |-> lines, writes |-> file.writes + 1]

save_results(self, files) ==
    [files EXCEPT !.cookies_txt = WriteFile(@, Sorted(self.cookies)),
                  !.parameters_txt = WriteFile(@, Sorted(self.params))]

\* one print() call: its format, the text and the number it interpolates
Line(fmt, text, n) == [fmt |-> fmt, text |-> text, n |-> n]

(***************************************************************************)
(* The inputs of the model: HTTP messages as Burp exports them, base64     *)
(* encoded, in the item elements of the XML document.                      *)
(***************************************************************************)
CRLF == <<"\r", "\n">>

B64Char(v) ==
    IF v < 26 THEN Chr(65 + v)
    ELSE IF v < 52 THEN Chr(71 + v)
    ELSE IF v < 62 THEN Chr(v - 4)
    ELSE IF v = 62 THEN "+" ELSE "/"

\* base64 of an ASCII text, padded
b64encode(text) ==
    LET n == Len(text)
        byte(i) == IF i <= n THEN Ord[text[i]] ELSE 0
        char(k) ==
            LET g == 3 * ((k - 1) \div 4)
                r == (k - 1) % 4
            IN  IF r = 0 THEN B64Char(byte(g + 1) \div 4)
                ELSE IF r = 1 THEN B64Char((byte(g + 1) % 4) * 16 + byte(g + 2) \div 16)
                ELSE IF r = 2
                THEN (IF g + 2 > n THEN "="
                      ELSE B64Char((byte(g + 2) % 16) * 4 + byte(g + 3) \div 64))
                ELSE (IF g + 3 > n THEN "=" ELSE B64Char(byte(g + 3) % 64))
    IN  [k \in 1..(4 * ((n + 2) \div 3)) |-> char(k)]

\* header lines joined by CRLF
RECURSIVE JoinLines(_)
JoinLines(lines) ==
    IF Len(lines) = 1 THEN lines[1] ELSE lines[1] \o CRLF \o JoinLines(Tail(lines))

\* a message with the blank line and a body, and one cut before the blank line
Message(lines, body) == JoinLines(lines) \o CRLFCRLF \o body
HeadersOnly(lines) == JoinLines(lines)

\* a request or response element: missing, holding the base64 of a text, or
\* holding a base64 text that lost its last character
Absent == [exists |-> FALSE, text |-> <<>>]
Encoded(text) == [exists |-> TRUE, text |-> b64encode(text)]
Truncated(text) ==
    [exists |-> TRUE, text |-> SubSeq(b64encode(text), 1, Len(b64encode(text)) - 1)]

Exchange(request, response) == [request |-> request, response |-> response]

\* GET /s?q=test&q=other&empty= HTTP/1.1
get_line ==
    <<"G", "E", "T", " ", "/", "s", "?", "q", "=", "t", "e", "s", "t", "&", "q", "=", "o",
      "t", "h", "e", "r", "&", "e", "m", "p", "t", "y", "=", " ", "H", "T", "T", "P", "/",
      "1", ".", "1">>
\* POST /login HTTP/1.1
login_line ==
    <<"P", "O", "S", "T", " ", "/", "l", "o", "g", "i", "n", " ", "H", "T", "T", "P", "/",
      "1", ".", "1">>
\* POST /api?sid=q9 HTTP/1.1
api_line ==
    <<"P", "O", "S", "T", " ", "/", "a", "p", "i", "?", "s", "i", "d", "=", "q", "9", " ",
      "H", "T", "T", "P", "/", "1", ".", "1">>
\* GET /?a=1
bare_line ==
    <<"G", "E", "T", " ", "/", "?", "a", "=", "1">>
\* HTTP/1.1 200 OK
status_line ==
    <<"H", "T", "T", "P", "/", "1", ".", "1", " ", "2", "0", "0", " ", "O", "K">>
\* Cookie: a=1; b=2
cookie_header ==
    <<"C", "o", "o", "k", "i", "e", ":", " ", "a", "=", "1", ";", " ", "b", "=", "2">>
\* Set-Cookie: sid=abc123; Path=/; Secure
set_cookie_header ==
    <<"S", "e", "t", "-", "C", "o", "o", "k", "i", "e", ":", " ", "s", "i", "d", "=", "a",
      "b", "c", "1", "2", "3", ";", " ", "P", "a", "t", "h", "=", "/", ";", " ", "S", "e",
      "c", "u", "r", "e">>
\* set-cookie: sid=Zed
set_cookie_zed ==
    <<"s", "e", "t", "-", "c", "o", "o", "k", "i", "e", ":", " ", "s", "i", "d", "=", "Z",
      "e", "d">>
\* Content-Type: application/json
ct_json ==
    <<"C", "o", "n", "t", "e", "n", "t", "-", "T", "y", "p", "e", ":", " ", "a", "p", "p",
      "l", "i", "c", "a", "t", "i", "o", "n", "/", "j", "s", "o", "n">>
\* Content-Type: application/x-www-form-urlencoded
ct_form ==
    <<"C", "o", "n", "t", "e", "n", "t", "-", "T", "y", "p", "e", ":", " ", "a", "p", "p",
      "l", "i", "c", "a", "t", "i", "o", "n", "/", "x", "-", "w", "w", "w", "-", "f", "o",
      "r", "m", "-", "u", "r", "l", "e", "n", "c", "o", "d", "e", "d">>
\* Content-Type: application/json; format=x
ct_json_format ==
    <<"C", "o", "n", "t", "e", "n", "t", "-", "T", "y", "p", "e", ":", " ", "a", "p", "p",
      "l", "i", "c", "a", "t", "i", "o", "n", "/", "j", "s", "o", "n", ";", " ", "f", "o",
      "r", "m", "a", "t", "=", "x">>
\* content-type: text/html
ct_text ==
    <<"c", "o", "n", "t", "e", "n", "t", "-", "t", "y", "p", "e", ":", " ", "t", "e", "x",
      "t", "/", "h", "t", "m", "l">>
\* {'user': {'id': 5, 'name': 'bob'}, 'tags': [1,2]}
body_example ==
    <<"{", "\"", "u", "s", "e", "r", "\"", ":", " ", "{", "\"", "i", "d", "\"", ":", " ",
      "5", ",", " ", "\"", "n", "a", "m", "e", "\"", ":", " ", "\"", "b", "o", "b", "\"",
      "}", ",", " ", "\"", "t", "a", "g", "s", "\"", ":", " ", "[", "1", ",", "2", "]", "}">>
\* user=bob&sid=xyz
body_form ==
    <<"u", "s", "e", "r", "=", "b", "o", "b", "&", "s", "i", "d", "=", "x", "y", "z">>
\* {'sid': 'p1', 'ok': true}
body_sid ==
    <<"{", "\"", "s", "i", "d", "\"", ":", " ", "\"", "p", "1", "\"", ",", " ", "\"", "o",
      "k", "\"", ":", " ", "t", "r", "u", "e", "}">>
\* a=1&b=2
body_pairs ==
    <<"a", "=", "1", "&", "b", "=", "2">>

\* POST /p?q=1 HTTP/1.1
post_line ==
    <<"P", "O", "S", "T", " ", "/", "p", "?", "q", "=", "1", " ", "H", "T", "T", "P", "/",
      "1", ".", "1">>
\* post /p HTTP/1.1
lower_post_line ==
    <<"p", "o", "s", "t", " ", "/", "p", " ", "H", "T", "T", "P", "/", "1", ".", "1">>
\* GET /p?q=1 HTTP/1.1
query_line ==
    <<"G", "E", "T", " ", "/", "p", "?", "q", "=", "1", " ", "H", "T", "T", "P", "/", "1",
      ".", "1">>
\* POST
method_only_line ==
    <<"P", "O", "S", "T">>
\* CONTENT-TYPE: APPLICATION/JSON
ct_upper_json ==
    <<"C", "O", "N", "T", "E", "N", "T", "-", "T", "Y", "P", "E", ":", " ", "A", "P", "P",
      "L", "I", "C", "A", "T", "I", "O", "N", "/", "J", "S", "O", "N">>
\* {'k': 1}
body_k ==
    <<"{", "\"", "k", "\"", ":", " ", "1", "}">>
\*  {'k': {'n': 'v'}}
body_nested ==
    <<" ", "{", "\"", "k", "\"", ":", " ", "{", "\"", "n", "\"", ":", " ", "\"", "v", "\"",
      "}", "}">>
\* [{'m': true}, 2]
body_list ==
    <<"[", "{", "\"", "m", "\"", ":", " ", "t", "r", "u", "e", "}", ",", " ", "2", "]">>
\* {'k': 1
body_broken ==
    <<"{", "\"", "k", "\"", ":", " ", "1">>
\* hello
body_plain ==
    <<"h", "e", "l", "l", "o">>
\* {'k': 'a=1&b=2'}
body_both ==
    <<"{", "\"", "k", "\"", ":", " ", "\"", "a", "=", "1", "&", "b", "=", "2", "\"", "}">>
\* Cookie: a=1;b = 2 ;c; =d
mixed_cookie ==
    <<"C", "o", "o", "k", "i", "e", ":", " ", "a", "=", "1", ";", "b", " ", "=", " ", "2",
      " ", ";", "c", ";", " ", "=", "d">>
\* Cookie:
upper_cookie ==
    <<"C", "o", "o", "k", "i", "e", ":">>
\* Set-Cookie:
upper_set_cookie ==
    <<"S", "e", "t", "-", "C", "o", "o", "k", "i", "e", ":">>
\* X-Cookie:
other_header ==
    <<"X", "-", "C", "o", "o", "k", "i", "e", ":">>

\* the exchanges of the documents main is run on
browse_exchange ==
    Exchange(Encoded(Message(<<get_line, cookie_header>>, <<>>)),
             Encoded(Message(<<status_line, set_cookie_header, ct_json>>, body_example)))
login_exchange ==
    Exchange(Encoded(Message(<<login_line, ct_form>>, body_form)), Absent)
api_exchange ==
    Exchange(Encoded(Message(<<api_line, ct_json>>, body_sid)),
             Encoded(Message(<<status_line, set_cookie_zed, ct_text>>, body_pairs)))
bad_request_exchange ==
    Exchange(Truncated(Message(<<get_line, cookie_header>>, <<>>)),
             Encoded(Message(<<status_line, set_cookie_header>>, <<>>)))
bad_response_exchange ==
    Exchange(Encoded(Message(<<api_line, ct_json>>, body_sid)),
             Truncated(Message(<<status_line, set_cookie_header>>, <<>>)))
cut_exchange ==
    Exchange(Encoded(HeadersOnly(<<bare_line, mixed_cookie>>)),
             Encoded(HeadersOnly(<<status_line, set_cookie_zed>>)))

Exchanges ==
    {browse_exchange, login_exchange, api_exchange, bad_request_exchange,
     bad_response_exchange, cut_exchange}

SeqsUpTo(S, n) == UNION {[1..k -> S] : k \in 0..n}

\* args.key: None when the option is absent, else the string given
NoKey == [given |-> FALSE, value |-> <<>>]
Key(value) == [given |-> TRUE, value |-> value]
Keys ==
    {NoKey, Key(<<>>), Key(<<"s", "i", "d">>), Key(<<"u", "s", "e", "r">>),
     Key(<<"z", "z">>)}

\* the input file: missing, not XML, or a document with its items
XmlFiles ==
    {[state |-> "missing", items |-> <<>>], [state |-> "malformed", items |-> <<>>]}
        \cup {[state |-> "ok", items |-> items] : items \in SeqsUpTo(Exchanges, MaxItems)}

\* an output file before the run: not there, or left by an earlier run
NoFile == [exists |-> FALSE, lines |-> <<>>, writes |-> 0]
OldFile == [exists |-> TRUE, lines |-> <<<<"o", "l", "d">>>>, writes |-> 0]

(***************************************************************************)
(* main                                                                    *)
(***************************************************************************)
\* if args.key: None and the empty string are both false
KeyTruthy == args.key.given /\ args.key.value # <<>>

InitRun(xmls, keys, files) ==
    /\ pc = "start"
    /\ args \in {[xml_file |-> "export.xml", output |-> "burp_params", key |-> k] : k \in keys}
    /\ disk \in {[xml |-> x, cookies_txt |-> f, parameters_txt |-> f] :
                    x \in xmls, f \in files}
    /\ doc = <<>>
    /\ idx = 1
    /\ burp_parser = BurpParser_init
    /\ values = <<>>
    /\ stdout = <<>>
    /\ stderr = <<>>
    /\ exit_status = -1
    /\ error = ""
    /\ arg = <<>>

Init == InitRun(XmlFiles, Keys, {NoFile, OldFile})

\* ET.parse(xml_file), tree.getroot() and root.findall('.//item')
LoadXml ==
    /\ pc = "start"
    /\ IF disk.xml.state = "ok"
       THEN /\ doc' = disk.xml.items
            /\ pc' = IF disk.xml.items = <<>> THEN "report" ELSE "walk"
            /\ error' = error
       ELSE /\ doc' = doc
            /\ pc' = "except"
            /\ error' = IF disk.xml.state = "missing" THEN "FileNotFoundError"
                        ELSE "ParseError"
    /\ UNCHANGED <<args, disk, idx, burp_parser, values, stdout, stderr, exit_status, arg>>

\* the loop goes on, ends, or is left by an exception
LoopStep(walked) ==
    /\ burp_parser' = walked.self
    /\ IF walked.raised # ""
       THEN /\ pc' = "except"
            /\ error' = walked.raised
            /\ idx' = idx
       ELSE /\ pc' = IF idx + 1 > Len(doc) THEN "report" ELSE "walk"
            /\ error' = error
            /\ idx' = idx + 1

\* one iteration of the for loop of parse_burp_xml
WalkItem ==
    /\ pc = "walk"
    /\ idx <= Len(doc)
    /\ LoopStep(walk_item(burp_parser, doc[idx]))
    /\ UNCHANGED <<args, disk, doc, values, stdout, stderr, exit_status, arg>>

\* the if args.key branch of main
Lookup ==
    /\ pc = "report"
    /\ KeyTruthy
    /\ values' = search_key(burp_parser, args.key.value)
    /\ stdout' = IF values' # <<>>
                 THEN [i \in 1..Len(values') |-> Line("{value}", values'[i], 0)]
                 ELSE <<Line("\nNo values found for key '{args.key}'", args.key.value, 0)>>
    /\ exit_status' = 0
    /\ pc' = "done"
    /\ UNCHANGED <<args, disk, doc, idx, burp_parser, stderr, error, arg>>

\* the else branch of main
Summary ==
    /\ pc = "report"
    /\ ~KeyTruthy
    /\ disk' = save_results(burp_parser, disk)
    /\ stdout' = <<Line("Successfully parsed {args.xml_file}", <<>>, 0),
                   Line("Found:", <<>>, 0),
                   Line("  {n} unique cookies", <<>>, Cardinality(burp_parser.cookies)),
                   Line("  {n} unique parameters", <<>>, Cardinality(burp_parser.params)),
                   Line("\nResults saved with base filename: {args.output}", <<>>, 0)>>
    /\ exit_status' = 0
    /\ pc' = "done"
    /\ UNCHANGED <<args, doc, idx, burp_parser, values, stderr, error, arg>>

\* except Exception as e
HandleError ==
    /\ pc = "except"
    /\ stderr' = <<[fmt |-> "Error: {str(e)}", e |-> error]>>
    /\ exit_status' = 1
    /\ pc' = "done"
    /\ UNCHANGED <<args, disk, doc, idx, burp_parser, values, stdout, error, arg>>

Next == LoadXml \/ WalkItem \/ Lookup \/ Summary \/ HandleError

Spec == Init /\ [][Next]_vars

(***************************************************************************)
(* Properties of a run of main.                                            *)
(***************************************************************************)
\* an element whose text b64decode rejects
Undecodable(element) == HasText(element) /\ ~b64decode(element.text).ok

\* the input makes loading or walking fail: no file, no XML, or a bad element
FatalInput ==
    \/ disk.xml.state # "ok"
    \/ \E i \in 1..Len(disk.xml.items) :
          Undecodable(disk.xml.items[i].request) \/ Undecodable(disk.xml.items[i].response)

\* neither output file has been created or overwritten
FilesUntouched == disk.cookies_txt.writes = 0 /\ disk.parameters_txt.writes = 0

\* C1: a run without a lookup name whose input is missing, is not XML or holds an
\* undecodable request or response anywhere ends with Error: <message> on standard
\* error and exit status 1 and never writes an output file; an output file is
\* written only after every item was walked without error
C1_FatalRunWritesNothing ==
    /\ (~args.key.given /\ FatalInput) =>
          /\ FilesUntouched
          /\ pc = "done" =>
                /\ error # ""
                /\ stderr = <<[fmt |-> "Error: {str(e)}", e |-> error]>>
                /\ exit_status = 1
    /\ ~FilesUntouched =>
          /\ pc = "done"
          /\ error = ""
          /\ disk.xml.state = "ok"
          /\ doc = disk.xml.items
          /\ idx = Len(doc) + 1

\* a summary run stopped by the response of its second item: the first item and
\* the request of the second are merged, and the old output files are as they were
C1_Witness ==
    /\ pc = "done"
    /\ ~args.key.given
    /\ exit_status = 1
    /\ error = "binascii.Error"
    /\ idx = 2
    /\ burp_parser.params # {}
    /\ disk.cookies_txt = OldFile
    /\ disk.parameters_txt = OldFile

\* C2: whenever --key is supplied, whatever its value, the run never writes an
\* output file
C2_KeyNeverSaves == args.key.given => FilesUntouched

\* the values recorded for a name in a defaultdict(set)
ValuesOf(d, name) == {p[2] : p \in {q \in Pairs(d) : q[1] = name}}

\* C3: after a walk, for every name (the empty name included) the list search_key
\* returns holds exactly the cookie values and the parameter values recorded for the
\* name, in strictly ascending order; in the lookup branch of main that list is what
\* is looked up: when it is empty main prints the no values found notice on standard
\* output, else one value per line, and exits with status 0
C3_SearchKeySortedUnion ==
    /\ pc = "report" =>
          \A name \in burp_parser.cookies \cup burp_parser.params \cup {args.key.value} :
              LET found == search_key(burp_parser, name)
              IN  /\ Range(found) = ValuesOf(burp_parser.cookie_values, name)
                                        \cup ValuesOf(burp_parser.param_values, name)
                  /\ \A i, j \in 1..Len(found) : i < j => StrLess(found[i], found[j])
    /\ (pc = "done" /\ KeyTruthy /\ error = "") =>
        LET key == args.key.value
            recorded == ValuesOf(burp_parser.cookie_values, key)
                            \cup ValuesOf(burp_parser.param_values, key)
        IN  /\ Range(values) = recorded
            /\ \A i, j \in 1..Len(values) : i < j => StrLess(values[i], values[j])
            /\ key \notin DOMAIN burp_parser.param_values =>
                  Range(values) = ValuesOf(burp_parser.cookie_values, key)
            /\ stdout = IF recorded = {}
                        THEN <<Line("\nNo values found for key '{args.key}'", key, 0)>>
                        ELSE [i \in 1..Len(values) |-> Line("{value}", values[i], 0)]
            /\ stderr = <<>>
            /\ exit_status = 0

\* a lookup of a name that has cookie values and parameter values
C3_Witness ==
    /\ pc = "done"
    /\ KeyTruthy
    /\ args.key.value \in DOMAIN burp_parser.cookie_values
    /\ args.key.value \in DOMAIN burp_parser.param_values
    /\ Len(values) >= 3

\* everything b holds, a holds
Subsumes(a, b) ==
    /\ b.cookies \subseteq a.cookies
    /\ b.params \subseteq a.params
    /\ Pairs(b.cookie_values) \subseteq Pairs(a.cookie_values)
    /\ Pairs(b.param_values) \subseteq Pairs(a.param_values)

\* C10: once the walk of decodable exchanges is over, walking any permutation of
\* them from the empty instance gives the same four collections, walking any of
\* them again changes nothing, and no step of a walk removes a name or a value
C10_WalkIsOrderFree ==
    /\ pc = "report" =>
          /\ \A p \in Permutations(1..Len(doc)) :
                parse_items(BurpParser_init, [i \in 1..Len(doc) |-> doc[p[i]]])
                    = Walked(burp_parser)
          /\ \A i \in 1..Len(doc) : walk_item(burp_parser, doc[i]) = Walked(burp_parser)
    /\ pc = "walk" => Subsumes(walk_item(burp_parser, doc[idx]).self, burp_parser)

\* a finished walk of two different exchanges that gave one cookie two values
C10_Witness ==
    /\ pc = "report"
    /\ Len(doc) >= 2
    /\ doc[1] # doc[2]
    /\ \E name \in DOMAIN burp_parser.cookie_values :
          Cardinality(burp_parser.cookie_values[name]) >= 2

(***************************************************************************)
(* parse_cookies on its own: one call on a header block.                   *)
(***************************************************************************)
CookieAlphabet == {"a", "b", "=", ";", " "}

\* a header line: a prefix, up to MaxLen characters, and the CR that split('\n')
\* leaves at the end of a line
HeaderLines ==
    {prefix \o rest \o cr :
        prefix \in {cookie_prefix, upper_cookie, set_cookie_prefix, upper_set_cookie,
                    other_header},
        rest \in SeqsUpTo(CookieAlphabet, MaxLen),
        cr \in {<<>>, <<"\r">>}}

HeaderBlocks ==
    HeaderLines \cup {cookie_header, set_cookie_header, mixed_cookie,
                      JoinLines(<<get_line, cookie_header, mixed_cookie>>)}

InitUnit(entry, inputs) ==
    /\ pc = entry
    /\ arg \in inputs
    /\ args = [xml_file |-> "export.xml", output |-> "burp_params", key |-> NoKey]
    /\ disk = [xml |-> [state |-> "missing", items |-> <<>>], cookies_txt |-> NoFile,
               parameters_txt |-> NoFile]
    /\ doc = <<>>
    /\ idx = 1
    /\ burp_parser = BurpParser_init
    /\ values = <<>>
    /\ stdout = <<>>
    /\ stderr = <<>>
    /\ exit_status = -1
    /\ error = ""

InitCookies == InitUnit("parse_cookies", HeaderBlocks)

CallParseCookies ==
    /\ pc = "parse_cookies"
    /\ burp_parser' = parse_cookies(burp_parser, arg)
    /\ pc' = "returned"
    /\ UNCHANGED <<args, disk, doc, idx, values, stdout, stderr, exit_status, error, arg>>

SpecCookies == InitCookies /\ [][CallParseCookies]_vars

\* the lines of the block that start with a prefix, whatever their case
LinesWith(headers, prefix) ==
    {line \in Range(Split(headers, LF)) : StartsWith(Lower(line), prefix)}

\* the names of a set of (name, value) pairs
Names(pairs) == {p[1] : p \in pairs}

\* what a cookie: line yields when name and value are both trimmed
TrimmedPairs(line) ==
    LET segments == Split(SliceFrom(line, 7), SEMI)
    IN  {<<Strip(Split1(segments[i], EQ)[1]), Strip(Split1(segments[i], EQ)[2])>> :
            i \in {j \in 1..Len(segments) : Contains(segments[j], EQ)}}

\* what a cookie: line yields when only the name is trimmed
NameTrimmedPairs(line) ==
    LET segments == Split(Strip(SliceFrom(line, 7)), SEMI)
    IN  {<<Strip(Split1(segments[i], EQ)[1]), Split1(segments[i], EQ)[2]>> :
            i \in {j \in 1..Len(segments) : Contains(segments[j], EQ)}}

\* what a set-cookie: line yields when it is cut at the first ';' before the '='
BeforeSemicolonPairs(line) ==
    LET portion == Split(SliceFrom(line, 11), SEMI)[1]
    IN  IF Contains(portion, EQ)
        THEN {<<Strip(Split1(portion, EQ)[1]), Strip(Split1(portion, EQ)[2])>>}
        ELSE {}

\* C4: a set-cookie: line is cut at its first ';' and what is before it is split on
\* its first '=': no attribute text reaches a name or a value, and a line with no
\* '=' before the first ';' yields nothing
C4_SetCookieCutBeforeSplit ==
    (pc = "returned" /\ LinesWith(arg, cookie_prefix) = {}) =>
        LET expected == UNION {BeforeSemicolonPairs(line) :
                                  line \in LinesWith(arg, set_cookie_prefix)}
        IN  /\ Pairs(burp_parser.cookie_values) = expected
            /\ burp_parser.cookies = Names(expected)

\* C5 as amended: a cookie: line is split on ';', each segment with an '=' is split
\* on its first '=', name and value are both trimmed of surrounding whitespace, the
\* name joins the cookie names and the value the values of that name; segments
\* without '=' yield nothing
C5_CookieSegmentsTrimmed ==
    pc = "returned" =>
        LET expected == UNION {TrimmedPairs(line) : line \in LinesWith(arg, cookie_prefix)}
        IN  /\ expected \subseteq Pairs(burp_parser.cookie_values)
            /\ Names(expected) \subseteq burp_parser.cookies
            /\ LinesWith(arg, set_cookie_prefix) = {} =>
                  /\ Pairs(burp_parser.cookie_values) = expected
                  /\ burp_parser.cookies = Names(expected)
            /\ burp_parser.params = {}
            /\ DOMAIN burp_parser.param_values = {}

\* C5 as claimed: only the name is trimmed, the value is recorded as it appears
C5_ValueAsItAppears ==
    (pc = "returned" /\ LinesWith(arg, set_cookie_prefix) = {}) =>
        LET expected == UNION {NameTrimmedPairs(line) :
                                  line \in LinesWith(arg, cookie_prefix)}
        IN  /\ Pairs(burp_parser.cookie_values) = expected
            /\ burp_parser.cookies = Names(expected)

\* a cookie: line with whitespace around a value and around a name, a segment
\* without '=' and a segment with an empty name
C5_Witness ==
    /\ pc = "returned"
    /\ arg = mixed_cookie
    /\ Pairs(burp_parser.cookie_values)
          = {<<<<"a">>, <<"1">>>>, <<<<"b">>, <<"2">>>>, <<<<>>, <<"d">>>>}

(***************************************************************************)
(* _extract_json_pairs on its own: one call on a parsed JSON value.        *)
(***************************************************************************)
JsonKeys == {<<"a">>, <<"b">>}

JsonLeaves ==
    {JScalar("str", <<"x">>), JScalar("int", <<"5">>), JScalar("float", <<"1", ".", "5">>),
     JScalar("bool", true_word), JNone, JDict(<<>>), JList(<<>>)}

\* the JSON values of exactly n nodes: a leaf, a dict of one or two members, or a
\* list of one or two items
RECURSIVE JsonOfSize(_)
JsonOfSize(n) ==
    IF n <= 1 THEN JsonLeaves
    ELSE LET one == JsonOfSize(n - 1)
             two == UNION {JsonOfSize(i) \X JsonOfSize(n - 1 - i) : i \in 1..(n - 2)}
         IN  {JDict(<<Member(k, v)>>) : k \in JsonKeys, v \in one}
                 \cup {JDict(<<Member(<<"a">>, p[1]), Member(<<"b">>, p[2])>>) : p \in two}
                 \cup {JList(<<Member(<<>>, v)>>) : v \in one}
                 \cup {JList(<<Member(<<>>, p[1]), Member(<<>>, p[2])>>) : p \in two}

JsonValues ==
    UNION {JsonOfSize(n) : n \in 1..MaxNodes} \cup {json_loads(body_example).val}

InitJson == InitUnit("_extract_json_pairs", JsonValues)

CallExtractJsonPairs ==
    /\ pc = "_extract_json_pairs"
    /\ burp_parser' = _extract_json_pairs(burp_parser, arg, <<>>)
    /\ pc' = "returned"
    /\ UNCHANGED <<args, disk, doc, idx, values, stdout, stderr, exit_status, error, arg>>

SpecJson == InitJson /\ [][CallExtractJsonPairs]_vars

\* the keys of every mapping reachable through mappings and sequences
RECURSIVE ReachableKeys(_)
ReachableKeys(obj) ==
    IF obj.t \in {"dict", "list"}
    THEN (IF obj.t = "dict" THEN {m.k : m \in Range(obj.items)} ELSE {})
             \cup UNION {ReachableKeys(m.val) : m \in Range(obj.items)}
    ELSE {}

\* the (key, str(value)) of every member of a reachable mapping whose value is a
\* string, a number or a boolean
RECURSIVE ScalarMembers(_)
ScalarMembers(obj) ==
    IF obj.t \in {"dict", "list"}
    THEN (IF obj.t = "dict"
          THEN {<<m.k, PyStr(m.val)>> :
                   m \in {x \in Range(obj.items) : x.val.t \in {"str", "int", "float", "bool"}}}
          ELSE {})
             \cup UNION {ScalarMembers(m.val) : m \in Range(obj.items)}
    ELSE {}

user_key == <<"u", "s", "e", "r">>
id_key == <<"i", "d">>
name_key == <<"n", "a", "m", "e">>
tags_key == <<"t", "a", "g", "s">>

\* C6: the names are exactly the keys of every reachable mapping, unprefixed; a key
\* has a value exactly where its value is a string, a number or a boolean; mappings,
\* sequences, null and the scalar items of a sequence give no value; and the example
\* of the specification yields user, id, name, tags with id -> 5 and name -> bob
C6_JsonKeysFlattened ==
    pc = "returned" =>
        /\ burp_parser.params = ReachableKeys(arg)
        /\ Pairs(burp_parser.param_values) = ScalarMembers(arg)
        /\ burp_parser.cookies = {}
        /\ DOMAIN burp_parser.cookie_values = {}
        /\ arg = json_loads(body_example).val =>
              /\ burp_parser.params = {user_key, id_key, name_key, tags_key}
              /\ Pairs(burp_parser.param_values)
                    = {<<id_key, <<"5">>>>, <<name_key, <<"b", "o", "b">>>>}

\* the example of the specification, walked
C6_Witness ==
    /\ pc = "returned"
    /\ arg = json_loads(body_example).val
    /\ Cardinality(burp_parser.params) = 4
    /\ DOMAIN burp_parser.param_values = {id_key, name_key}

(***************************************************************************)
(* main on documents of one exchange, over a catalogue of messages: every  *)
(* request line with every content-type and every body, with and without   *)
(* the separator, and the same for responses.                              *)
(***************************************************************************)
ContentTypes == {<<>>, ct_json, ct_form, ct_json_format, ct_text, ct_upper_json}

Bodies ==
    {<<>>, body_k, body_nested, body_list, body_broken, body_plain, body_pairs, body_both}

\* the header lines of a message: the first line, then the headers that are there
HeaderLinesOf(first, cookie, ct) ==
    <<first>> \o (IF cookie = <<>> THEN <<>> ELSE <<cookie>>)
              \o (IF ct = <<>> THEN <<>> ELSE <<ct>>)

RequestTexts ==
    {Message(HeaderLinesOf(first, <<>>, ct), body) :
        first \in {post_line, lower_post_line, query_line, method_only_line},
        ct \in ContentTypes, body \in Bodies}
    \cup {HeadersOnly(HeaderLinesOf(first, cookie, ct)) :
            first \in {post_line, query_line, method_only_line},
            cookie \in {<<>>, cookie_header}, ct \in {<<>>, ct_json}}

ResponseTexts ==
    {Message(HeaderLinesOf(status_line, <<>>, ct), body) :
        ct \in ContentTypes, body \in Bodies}
    \cup {HeadersOnly(HeaderLinesOf(status_line, cookie, ct)) :
            cookie \in {<<>>, set_cookie_header}, ct \in {<<>>, ct_json}}

OneExchange ==
    {Exchange(Encoded(text), Absent) : text \in RequestTexts}
        \cup {Exchange(Absent, Encoded(text)) : text \in ResponseTexts}
        \cup {Exchange(Encoded(HeadersOnly(<<query_line, cookie_header>>)),
                       Encoded(HeadersOnly(<<status_line, set_cookie_header>>))),
              Exchange(Truncated(Message(<<post_line, ct_json>>, body_k)), Absent),
              Exchange(Absent, Truncated(HeadersOnly(<<status_line, set_cookie_header>>)))}

InitExchange ==
    InitRun({[state |-> "ok", items |-> <<exchange>>] : exchange \in OneExchange},
            {NoKey, Key(<<"k">>)}, {NoFile})

SpecExchange == InitExchange /\ [][Next]_vars

\* the walk is over and no exception left it
WalkedThrough == pc \in {"report", "done"} /\ error = "" /\ Len(doc) = 1

\* the decoded text of an element that is there
TextOf(element) == b64decode(element.text).text

HeadersOf(text) == Split1(text, CRLFCRLF)[1]
BodyOf(text) == IF Contains(text, CRLFCRLF) THEN Split1(text, CRLFCRLF)[2] ELSE <<>>
PartsOf(text) == Split(Split(HeadersOf(text), LF)[1], SP)

\* what the headers and the URL of a request give, its body left aside
BodyAside(text) ==
    LET scanned == parse_cookies(BurpParser_init, HeadersOf(text))
    IN  IF Len(PartsOf(text)) >= 2
        THEN parse_query_params(scanned, urlparse_query(PartsOf(text)[2]))
        ELSE scanned

FormGate(content_type) == Contains(Lower(content_type), form_word)

JsonGate(content_type, body) ==
    \/ Contains(Lower(content_type), json_word)
    \/ \E i \in 1..Len(body) :
          /\ body[i] \in {"{", "["}
          /\ \A j \in 1..(i - 1) : body[j] \in Whitespace

\* the (name, value) pairs of a body read as form data
FormPairs(body) ==
    LET segments == Split(body, AMP)
    IN  {<<Split1(segments[i], EQ)[1], Split1(segments[i], EQ)[2]>> :
            i \in {j \in 1..Len(segments) :
                      Contains(segments[j], EQ) /\ Split1(segments[j], EQ)[1] # <<>>}}

\* the names and the pairs of a body read as JSON, nothing when it does not parse
JsonNames(body) ==
    IF json_loads(body).ok THEN ReachableKeys(json_loads(body).val) ELSE {}
JsonPairs(body) ==
    IF json_loads(body).ok THEN ScalarMembers(json_loads(body).val) ELSE {}

\* a document of one request, no response, whose method is exactly POST and whose
\* body is not empty
PostRequest ==
    /\ WalkedThrough
    /\ HasText(doc[1].request)
    /\ ~doc[1].response.exists
    /\ Len(PartsOf(TextOf(doc[1].request))) >= 2
    /\ PartsOf(TextOf(doc[1].request))[1] = POST
    /\ BodyOf(TextOf(doc[1].request)) # <<>>

ResponseAlone ==
    /\ WalkedThrough
    /\ ~doc[1].request.exists
    /\ HasText(doc[1].response)

\* C8: a response body is never read as form data: it gives parameter names and
\* values only through the JSON walk, and only when the content-type contains
\* 'json' and the body is valid JSON; any other response gives none
C8_ResponseNeverForm ==
    ResponseAlone =>
        LET text == TextOf(doc[1].response)
            content_type == get_content_type(HeadersOf(text))
            json == Contains(text, CRLFCRLF) /\ Contains(Lower(content_type), json_word)
        IN  /\ burp_parser.params = IF json THEN JsonNames(BodyOf(text)) ELSE {}
            /\ Pairs(burp_parser.param_values)
                  = IF json THEN JsonPairs(BodyOf(text)) ELSE {}

\* a message that decoded and holds no separator
Unseparated(element) ==
    /\ HasText(element)
    /\ b64decode(element.text).ok
    /\ ~Contains(TextOf(element), CRLFCRLF)

\* C9 as claimed: a request or a response without the separator is absorbed without
\* error and read as a header block: its cookie and set-cookie lines are scanned
C9_AnyMessageAsHeaders ==
    (pc \in {"report", "done"} /\ Len(doc) = 1) =>
        \A element \in {doc[1].request, doc[1].response} :
            Unseparated(element) =>
                /\ error = ""
                /\ parse_cookies(BurpParser_init, TextOf(element)).cookies
                      \subseteq burp_parser.cookies

\* C9 as amended: a request without the separator is absorbed without error and
\* read as a header block with an empty body: its cookie lines are scanned, its URL
\* gives the query names and no body extractor runs; a response without the
\* separator is absorbed without error and skipped: it gives no cookie and no name
C9_RequestAsHeadersResponseSkipped ==
    (pc \in {"report", "done"} /\ Len(doc) = 1) =>
        /\ (Unseparated(doc[1].request) /\ Unseparated(doc[1].response)) => error = ""
        /\ (Unseparated(doc[1].request) /\ ~doc[1].response.exists) =>
              /\ error = ""
              /\ burp_parser = BodyAside(TextOf(doc[1].request))
              /\ burp_parser.cookies
                    = parse_cookies(BurpParser_init, TextOf(doc[1].request)).cookies
        /\ (Unseparated(doc[1].response) /\ error = "") =>
              burp_parser = walk_request(BurpParser_init, doc[1]).self

\* a request and a response without the separator, each with a cookie header: the
\* cookies and the query name of the request are there, the cookie of the response
\* is not
C9_Witness ==
    /\ pc = "done"
    /\ Len(doc) = 1
    /\ Unseparated(doc[1].request)
    /\ Unseparated(doc[1].response)
    /\ exit_status = 0
    /\ burp_parser.cookies = {<<"a">>, <<"b">>}
    /\ burp_parser.params = {<<"q">>}
    /\ parse_cookies(BurpParser_init, TextOf(doc[1].response)).cookies = {<<"s", "i", "d">>}

====
